---- MODULE Spec2Model ----
(***************************************************************************)
(* Model of the reasoning engine of ai-artistry (src/reasoning-engine.js)  *)
(* and of the completion endpoint it calls (src/unnamed/part_000).         *)
(*                                                                         *)
(* JSON values are modelled by their kind (a string) and, where the code   *)
(* looks inside them, by their content:                                    *)
(*   "absent"  the key is not in the mapping (JS: undefined)               *)
(*   "null"    JSON null                                                   *)
(*   "false"   JSON false          "zero"  the number 0                    *)
(*   "empty"   the empty string    "text"  a non-empty string              *)
(*   "num"     a number            "obj"   a mapping                       *)
(*   "array"   a sequence.                                                 *)
(* Numbers between 0 and 1 (confidence values) are kept in hundredths, so  *)
(* 0.7 is 70 and 0.8 is 80.                                                *)
(***************************************************************************)
EXTENDS Integers, Sequences, FiniteSets, TLC

VARIABLES
  env,         \* "browser" or "node": what typeof window tells callClaudeAPI
  pc,          \* position of the invocation: "idle", "pending", "done"
  op,          \* the exported function invoked
  input,       \* its arguments
  requests,    \* the requests sent to the completion endpoint, in order
  response,    \* what the endpoint answered
  validation,  \* what validateArchitecture did inside parseResponse
  stages,      \* the steps the invocation ran after the completion resolved
  outcome,     \* what the invocation returned or threw to its caller
  calls,       \* the invocations in flight side by side, each with its own state
  heap         \* the architecture objects the callers hold, by reference

vars == <<env, pc, op, input, requests, response, validation, stages, outcome, calls, heap>>
single == <<pc, op, input, requests, response, validation, stages, outcome>>

(***************************************************************************)
(* Bounds of the model.                                                    *)
(***************************************************************************)
MaxMissingInfo == 5
MaxInterpretations == 2
MaxShots == 3
MaxInvocations == 2

(***************************************************************************)
(* Constants of the program.                                               *)
(***************************************************************************)
ConfidenceThreshold == 70
DefaultConfidence == 80
MaxQuestions == 3
NoteLimit == 100

\* s.slice(0, n)
Take(s, n) == SubSeq(s, 1, IF Len(s) < n THEN Len(s) ELSE n)

\* JS truthiness of a value, by kind: !v holds exactly for these kinds.
Falsy(k) == k \in {"absent", "null", "false", "zero", "empty"}

(***************************************************************************)
(* Values.                                                                 *)
(***************************************************************************)
Arr(items) == [k |-> "array", items |-> items]
NoColl(k) == [k |-> k, items |-> <<>>]
Num(v) == [k |-> "num", v |-> v]
NoNum(k) == [k |-> k, v |-> 0]

\* A note: the first len characters of a text, with or without '...' after.
Note(k, len, ellipsis) == [k |-> k, len |-> len, ellipsis |-> ellipsis]
NoNote == Note("absent", 0, FALSE)

Meta(k, score) ==
  [k |-> k, confidence_score |-> score, schema_version |-> "absent",
   created_at |-> "absent", platform_target |-> "absent",
   updated_at |-> "absent", refinement_note |-> NoNote]

Shot(prompt, full_prompt) == [prompt |-> prompt, full_prompt |-> full_prompt]
GoodShot == Shot("obj", "text")

Question(i, criticality, default_used) ==
  [question |-> i, why_it_matters |-> 10 + i, criticality |-> criticality,
   default_used |-> default_used]

Interpretation(i, confidence) ==
  [element |-> i, interpretation |-> i, alternatives |-> i,
   confidence |-> confidence]

Doc(metadata, project, global_style, shots, interpretations, missing_info, characters, environments) ==
  [metadata |-> metadata, project |-> project, global_style |-> global_style,
   shots |-> shots, interpretations |-> interpretations,
   missing_info |-> missing_info, characters |-> characters,
   environments |-> environments]

NoArch == Doc(Meta("absent", NoNum("absent")), "absent", "absent",
              NoColl("absent"), NoColl("absent"), NoColl("absent"),
              NoColl("absent"), NoColl("absent"))

(***************************************************************************)
(* Errors thrown to a caller: the Error's message, by its parts.           *)
(***************************************************************************)
Err(kind, fields, n) == [kind |-> kind, fields |-> fields, n |-> n]
NoError == Err("none", <<>>, 0)
\* 'Failed to parse architecture response as JSON'
ParseFailed == Err("parse_failed", <<>>, 0)
\* `Architecture missing required fields: ${missing.join(', ')}`
MissingFields(missing) == Err("missing_fields", missing, 0)
\* `Shot ${i + 1} missing full_prompt`
ShotMissingPrompt(i) == Err("shot_missing_full_prompt", <<>>, i)
\* `API call failed: ${response.status}`
ApiCallFailed(status) == Err("api_call_failed", <<>>, status)
\* 'Direct API calls require Node.js environment with Anthropic SDK'
NoSdk == Err("no_sdk", <<>>, 0)
\* the TypeError of reading a property of null
InputTypeError == Err("type_error", <<>>, 0)

(***************************************************************************)
(* validateArchitecture                                                    *)
(***************************************************************************)
Required == <<"metadata", "project", "global_style", "shots">>

FieldKind(arch, field) ==
  CASE field = "metadata" -> arch.metadata.k
    [] field = "project" -> arch.project
    [] field = "global_style" -> arch.global_style
    [] field = "shots" -> arch.shots.k

MissingRequiredFirstOnly(arch) ==
  Take(SelectSeq(Required, LAMBDA field : Falsy(FieldKind(arch, field))), 1)

\* required.filter(field => !arch[field])
MissingRequired(arch) ==
  SelectSeq(Required, LAMBDA field : Falsy(FieldKind(arch, field)))

ShotLacksPromptObject(shot) == Falsy(shot.prompt)

\* !shot.prompt || !shot.prompt.full_prompt
ShotLacksPrompt(shot) == Falsy(shot.prompt) \/ Falsy(shot.full_prompt)

BadShots(arch) ==
  {i \in 1..Len(arch.shots.items) : ShotLacksPrompt(arch.shots.items[i])}

Min(S) == CHOOSE m \in S : \A n \in S : m <= n

DefaultScoreWhenFalsy(score) ==
  IF score.k # "num" \/ score.v = 0 THEN Num(DefaultConfidence) ELSE score

\* typeof arch.metadata.confidence_score !== 'number' ? 0.8 : unchanged
DefaultScore(score) ==
  IF score.k # "num" THEN Num(DefaultConfidence) ELSE score

\* arch.x = arch.x || []
DefaultArray(coll) == IF Falsy(coll.k) THEN Arr(<<>>) ELSE coll

ApplyDefaultsOverwriting(arch) ==
  [arch EXCEPT !.metadata.confidence_score = Num(DefaultConfidence),
               !.interpretations = DefaultArray(@),
               !.missing_info = DefaultArray(@),
               !.characters = DefaultArray(@),
               !.environments = DefaultArray(@)]

\* lines 455-464: the defaults, assigned in place
ApplyDefaults(arch) ==
  [arch EXCEPT !.metadata.confidence_score = DefaultScore(@),
               !.interpretations = DefaultArray(@),
               !.missing_info = DefaultArray(@),
               !.characters = DefaultArray(@),
               !.environments = DefaultArray(@)]

Result(ok, error, arch) == [ok |-> ok, error |-> error, arch |-> arch]
NoResult == Result(FALSE, NoError, NoArch)

ValidateArchitecture(arch) ==
  LET missing == MissingRequired(arch)
  IN IF Len(missing) > 0 THEN Result(FALSE, MissingFields(missing), NoArch)
     ELSE LET bad == BadShots(arch)
          IN IF bad # {} THEN Result(FALSE, ShotMissingPrompt(Min(bad)), NoArch)
             ELSE Result(TRUE, NoError, ApplyDefaults(arch))

(***************************************************************************)
(* parseResponse.  A completion text is a sequence of tokens: "FENCE"     *)
(* (the delimiter of three backquotes), "json" and "lang" (language tags), *)
(* "NL" (a newline) and "SP" (other whitespace), "junk" (prose) and "DOC", *)
(* the text of a JSON document whose parsed value is the text's doc.       *)
(***************************************************************************)
Text(toks, doc) == [toks |-> toks, doc |-> doc]
NoText == Text(<<>>, NoArch)

Rest(t, n) == SubSeq(t, n + 1, Len(t))

\* jsonStr.includes(FENCE + 'json')
IncludesJsonFence(t) ==
  \E i \in 1..(Len(t) - 1) : t[i] = "FENCE" /\ t[i + 1] = "json"

\* jsonStr.includes(FENCE)
IncludesFence(t) == \E i \in 1..Len(t) : t[i] = "FENCE"

\* jsonStr.replace(/FENCEjson\n?/g, '')
RECURSIVE RemoveJsonFences(_)
RemoveJsonFences(t) ==
  IF t = <<>> THEN <<>>
  ELSE IF Len(t) >= 2 /\ t[1] = "FENCE" /\ t[2] = "json"
    THEN IF Len(t) >= 3 /\ t[3] = "NL"
           THEN RemoveJsonFences(Rest(t, 3))
           ELSE RemoveJsonFences(Rest(t, 2))
  ELSE <<t[1]>> \o RemoveJsonFences(Rest(t, 1))

\* jsonStr.replace(/FENCE\n?/g, '')
RECURSIVE RemoveFences(_)
RemoveFences(t) ==
  IF t = <<>> THEN <<>>
  ELSE IF t[1] = "FENCE"
    THEN IF Len(t) >= 2 /\ t[2] = "NL"
           THEN RemoveFences(Rest(t, 2))
           ELSE RemoveFences(Rest(t, 1))
  ELSE <<t[1]>> \o RemoveFences(Rest(t, 1))

IsSpace(tok) == tok \in {"NL", "SP"}

\* jsonStr.trim()
RECURSIVE Trim(_)
Trim(t) ==
  IF t = <<>> THEN <<>>
  ELSE IF IsSpace(t[1]) THEN Trim(Rest(t, 1))
  ELSE IF IsSpace(t[Len(t)]) THEN Trim(SubSeq(t, 1, Len(t) - 1))
  ELSE t

CleanText(t) ==
  Trim(IF IncludesJsonFence(t) THEN RemoveFences(RemoveJsonFences(t))
       ELSE IF IncludesFence(t) THEN RemoveFences(t)
       ELSE t)

\* JSON.parse(jsonStr) does not throw
JsonParses(t) == CleanText(t) = <<"DOC">>

ParseResponseLenient(text) ==
  IF ~JsonParses(text.toks) THEN Result(FALSE, ParseFailed, NoArch)
  ELSE LET validated == ValidateArchitecture(text.doc)
       IN IF validated.ok THEN validated ELSE Result(TRUE, NoError, text.doc)

\* The catch clause replaces whatever was thrown inside the try block,
\* JSON.parse's error or validateArchitecture's, by one and the same Error.
ParseResponse(text) ==
  IF ~JsonParses(text.toks) THEN Result(FALSE, ParseFailed, NoArch)
  ELSE LET validated == ValidateArchitecture(text.doc)
       IN IF validated.ok THEN validated ELSE Result(FALSE, ParseFailed, NoArch)

(***************************************************************************)
(* processWithConfidenceGating, after generateArchitecture returned.       *)
(***************************************************************************)
Returned(status, architecture, questions, caveats, keys) ==
  [status |-> status, architecture |-> architecture, questions |-> questions,
   caveats |-> caveats, keys |-> keys]
NoValue == Returned("none", NoArch, <<>>, <<>>, {})

\* (x || [])
OrEmpty(coll) == IF Falsy(coll.k) THEN <<>> ELSE coll.items

IsCriticalHighOnly(q) == q.criticality = "high"

\* q => q.criticality === 'high' || !q.default_used
IsCritical(q) == q.criticality = "high" \/ Falsy(q.default_used)

\* .filter(...).slice(0, 3)
CriticalQuestions(result) ==
  Take(SelectSeq(OrEmpty(result.missing_info), IsCritical), MaxQuestions)

AsQuestionWhole(q) == q

\* q => ({ question, context: q.why_it_matters, currentAssumption: q.default_used })
AsQuestion(q) ==
  [question |-> q.question, context |-> q.why_it_matters,
   currentAssumption |-> q.default_used]

IsLowConfidenceInclusive(i) == i.confidence <= ConfidenceThreshold

\* i => i.confidence < 0.7
IsLowConfidence(i) == i.confidence < ConfidenceThreshold

AsCaveat(i) ==
  [element |-> i.element, interpretation |-> i.interpretation,
   alternatives |-> i.alternatives]

\* criticalQuestions.map(q => ({ ... }))
AsQuestions(qs) == [n \in 1..Len(qs) |-> AsQuestion(qs[n])]

\* .map(i => ({ ... }))
AsCaveats(is) == [n \in 1..Len(is) |-> AsCaveat(is[n])]

Caveats(result) ==
  AsCaveats(SelectSeq(OrEmpty(result.interpretations), IsLowConfidence))

MeetsThresholdStrictly(score) == score.v > ConfidenceThreshold

\* result.metadata.confidence_score >= 0.7
MeetsThreshold(score) == score.v >= ConfidenceThreshold

ConfidenceGate(result) ==
  IF MeetsThreshold(result.metadata.confidence_score)
    THEN Returned("complete", result, <<>>, <<>>, {"status", "architecture"})
  ELSE LET criticalQuestions == CriticalQuestions(result)
       IN IF Len(criticalQuestions) > 0
            THEN Returned("needs_clarification", result, AsQuestions(criticalQuestions),
                          <<>>, {"status", "architecture", "questions"})
            ELSE Returned("complete_with_caveats", result, <<>>, Caveats(result),
                          {"status", "architecture", "caveats"})

(***************************************************************************)
(* The arguments of an invocation and the request it builds.               *)
(***************************************************************************)
Direction(k, len) == [k |-> k, len |-> len]
NoDirection == Direction("absent", 0)

Feedback(k, len, shots, direction) == [k |-> k, len |-> len, shots |-> shots, direction |-> direction]
NoFeedback == Feedback("absent", 0, <<>>, NoDirection)
UserFeedback(len) == Feedback("user", len, <<>>, NoDirection)

\* A creative input: a plain string, { type: 'text', content },
\* { type: 'deck', filename, parsedContent } or { type: 'structured', ... }.
\* variant "null" is the value null, which is none of these.
Creative(variant, fields, references) ==
  [variant |-> variant, content |-> fields.content, filename |-> fields.filename,
   parsedContent |-> fields.parsedContent, concept |-> fields.concept,
   tone |-> fields.tone, narrative |-> fields.narrative,
   characters |-> fields.characters, shots |-> fields.shots,
   style |-> fields.style, constraints |-> fields.constraints,
   references |-> references]
NoFields ==
  [content |-> "absent", filename |-> "absent", parsedContent |-> "absent",
   concept |-> "absent", tone |-> "absent", narrative |-> "absent",
   characters |-> NoColl("absent"), shots |-> NoColl("absent"),
   style |-> "absent", constraints |-> "absent"]
PlainString == Creative("string", [NoFields EXCEPT !.content = "text"], NoColl("absent"))
Reference(description, url) == [description |-> description, url |-> url]
Character(name, description) == [name |-> name, description |-> description]

Input(platform, prior, feedback, targetShots, shotNumbers, direction) ==
  [platform |-> platform, prior |-> prior, feedback |-> feedback,
   targetShots |-> targetShots, shotNumbers |-> shotNumbers,
   direction |-> direction,
   creative |-> PlainString, shotCount |-> "absent", brandContext |-> "absent"]
\* generateArchitecture(creativeInput, { platform, shotCount, brandContext })
Brief(creative, platform, shotCount, brandContext) ==
  [platform |-> platform, prior |-> NoArch, feedback |-> NoFeedback,
   targetShots |-> NoColl("absent"), shotNumbers |-> <<>>,
   direction |-> NoDirection,
   creative |-> creative, shotCount |-> shotCount, brandContext |-> brandContext]
NoInput == Input("absent", NoArch, NoFeedback, NoColl("absent"), <<>>, NoDirection)

\* const { platform = 'platform-agnostic' } = options
PlatformOf(in) == IF in.platform = "absent" THEN "platform-agnostic" ELSE in.platform

\* shotNumbers.join(', ') for shot numbers of one digit
JoinLen(nums) == IF Len(nums) = 0 THEN 0 ELSE 3 * Len(nums) - 2

\* regenerateShots: the feedback it synthesizes
RegenerateFeedback(in) ==
  IF ~Falsy(in.direction.k)
    THEN Feedback("direction", 17 + JoinLen(in.shotNumbers) + 22 + in.direction.len,
                  in.shotNumbers, in.direction)
    ELSE Feedback("fresh", 17 + JoinLen(in.shotNumbers) + 87, in.shotNumbers, NoDirection)

\* What refineArchitecture receives: regenerateShots passes its own feedback
\* and { ...options, targetShots: shotNumbers }.
FeedbackOf(o, in) == IF o = "regenerateShots" THEN RegenerateFeedback(in) ELSE in.feedback
TargetShotsOfOptionsLast(o, in) ==
  IF o = "regenerateShots" /\ Falsy(in.targetShots.k) THEN Arr(in.shotNumbers) ELSE in.targetShots

TargetShotsOf(o, in) == IF o = "regenerateShots" THEN Arr(in.shotNumbers) ELSE in.targetShots

\* A prompt: what it embeds, and its text as a sequence of pieces. The pieces
\* "PRIOR", "FEEDBACK" and "SHOTS" stand for the serialized prior
\* architecture, the feedback text and the joined shot numbers.
Prompt(kind, platform, prior, feedback, scope, text) ==
  [kind |-> kind, platform |-> platform, prior |-> prior, feedback |-> feedback,
   scope |-> scope, text |-> text]

\* A template literal's rendering of a value: undefined and null are
\* written out as words, an empty string as nothing.
Interpolate(k) ==
  CASE k = "absent" -> <<"undefined">>
    [] k = "null" -> <<"null">>
    [] k = "empty" -> <<>>
    [] OTHER -> <<k>>

RECURSIVE Flatten(_)
Flatten(ss) == IF ss = <<>> THEN <<>> ELSE Head(ss) \o Flatten(Tail(ss))

\* `- ${c.name}: ${c.description}`
CharacterLine(c) == <<"- ">> \o Interpolate(c.name) \o <<": ">> \o Interpolate(c.description)
\* `${i + 1}. ${s}`
ShotIdeaLine(s) == <<"n. ">> \o Interpolate(s)
\* `${i + 1}. ${r.description}${r.url ? ` (${r.url})` : ''}`
ReferenceLine(r) ==
  <<"n. ">> \o Interpolate(r.description)
  \o (IF ~Falsy(r.url) THEN <<" (">> \o Interpolate(r.url) \o <<")">> ELSE <<>>)

CharacterLines(cs) == Flatten([i \in 1..Len(cs) |-> CharacterLine(cs[i])])
ShotIdeaLines(ss) == Flatten([i \in 1..Len(ss) |-> ShotIdeaLine(ss[i])])
ReferenceLines(rs) == Flatten([i \in 1..Len(rs) |-> ReferenceLine(rs[i])])

\* Array.isArray(input.tone) ? input.tone.join(', ') : input.tone
ToneText(tone) == IF tone = "array" THEN <<"joined">> ELSE Interpolate(tone)

FormatStructuredInputUnguarded(c) ==
  (IF ~Falsy(c.concept) THEN <<"Concept: ">> \o Interpolate(c.concept) ELSE <<>>)
  \o (IF ~Falsy(c.tone) THEN <<"Tone: ">> \o ToneText(c.tone) ELSE <<>>)
  \o (IF ~Falsy(c.narrative) THEN <<"Narrative: ">> \o Interpolate(c.narrative) ELSE <<>>)
  \o (IF ~Falsy(c.characters.k) THEN <<"Characters:">> \o CharacterLines(c.characters.items) ELSE <<>>)
  \o (IF ~Falsy(c.shots.k) THEN <<"Shot ideas:">> \o ShotIdeaLines(c.shots.items) ELSE <<>>)
  \o <<"Style notes: ">> \o Interpolate(c.style)
  \o (IF ~Falsy(c.constraints) THEN <<"Constraints: ">> \o Interpolate(c.constraints) ELSE <<>>)

\* formatStructuredInput: one part for each truthy field
FormatStructuredInput(c) ==
  (IF ~Falsy(c.concept) THEN <<"Concept: ">> \o Interpolate(c.concept) ELSE <<>>)
  \o (IF ~Falsy(c.tone) THEN <<"Tone: ">> \o ToneText(c.tone) ELSE <<>>)
  \o (IF ~Falsy(c.narrative) THEN <<"Narrative: ">> \o Interpolate(c.narrative) ELSE <<>>)
  \o (IF ~Falsy(c.characters.k) THEN <<"Characters:">> \o CharacterLines(c.characters.items) ELSE <<>>)
  \o (IF ~Falsy(c.shots.k) THEN <<"Shot ideas:">> \o ShotIdeaLines(c.shots.items) ELSE <<>>)
  \o (IF ~Falsy(c.style) THEN <<"Style notes: ">> \o Interpolate(c.style) ELSE <<>>)
  \o (IF ~Falsy(c.constraints) THEN <<"Constraints: ">> \o Interpolate(c.constraints) ELSE <<>>)

\* buildUserPrompt's inputSection
InputSection(c) ==
  CASE c.variant = "string" -> Interpolate(c.content)
    [] c.variant = "text" -> Interpolate(c.content)
    [] c.variant = "deck" ->
         <<"[Parsed from deck: ">> \o Interpolate(c.filename) \o <<"]">>
         \o Interpolate(c.parsedContent)
    [] c.variant = "structured" -> FormatStructuredInput(c)
    [] OTHER -> <<>>

\* buildUserPrompt's referencesSection; a string has no references property
ReferencesSection(c) ==
  IF c.variant # "string" /\ ~Falsy(c.references.k) /\ Len(c.references.items) > 0
    THEN <<"## Visual References">> \o ReferenceLines(c.references.items)
    ELSE <<>>

\* buildUserPrompt's Requirements section
Requirements(platform, shotCount, brandContext) ==
  <<"## Requirements", "- Target platform: ">> \o Interpolate(platform)
  \o <<"- Number of shots: ">>
  \o (IF ~Falsy(shotCount) THEN Interpolate(shotCount) ELSE <<"infer from content">>)
  \o (IF ~Falsy(brandContext) THEN <<"- Brand context: ">> \o Interpolate(brandContext) ELSE <<>>)

\* buildUserPrompt reads input.type, which fails on null
BuildFails(o, in) == o \in {"generateArchitecture", "processWithConfidenceGating"} /\ in.creative.variant = "null"

\* buildUserPrompt
BuildUserPrompt(in) ==
  Prompt("generation", PlatformOf(in), NoArch, NoFeedback, NoColl("absent"),
         <<"## Creative Input">> \o InputSection(in.creative) \o ReferencesSection(in.creative)
         \o Requirements(PlatformOf(in), in.shotCount, in.brandContext)
         \o <<"## Instructions">>)

RefinementInstructionsWhenListed(targetShots) ==
  (IF ~Falsy(targetShots.k) /\ Len(targetShots.items) > 0
     THEN <<"Refine shots ", "SHOTS", " based on the feedback while maintaining continuity with other shots.">>
     ELSE <<"Refine the entire architecture based on the feedback.">>)
  \o <<"Preserve all elements not addressed by the feedback.",
       "Maintain character consistency and continuity.",
       "Output the complete updated architecture as valid JSON matching the schema.">>

\* refineArchitecture's Instructions section
RefinementInstructions(targetShots) ==
  (IF ~Falsy(targetShots.k)
     THEN <<"Refine shots ", "SHOTS", " based on the feedback while maintaining continuity with other shots.">>
     ELSE <<"Refine the entire architecture based on the feedback.">>)
  \o <<"Preserve all elements not addressed by the feedback.",
       "Maintain character consistency and continuity.",
       "Output the complete updated architecture as valid JSON matching the schema.">>

\* refineArchitecture's refinementPrompt
RefinementPrompt(o, in) ==
  Prompt("refinement", "absent", in.prior, FeedbackOf(o, in),
         IF ~Falsy(TargetShotsOf(o, in).k) THEN TargetShotsOf(o, in) ELSE NoColl("absent"),
         <<"## Current Architecture", "PRIOR", "## Feedback", "FEEDBACK", "## Instructions">>
         \o RefinementInstructions(TargetShotsOf(o, in)))

IsRefinement(o) == o \in {"refineArchitecture", "regenerateShots"}

UserPromptOf(o, in) == IF IsRefinement(o) THEN RefinementPrompt(o, in) ELSE BuildUserPrompt(in)

\* callClaudeAPI in a browser: fetch('/api/generate', body: { prompt: userPrompt })
\* The requestBody of lines 374-384, which holds the system prompt, is built
\* and never used.
FetchBody(userPrompt) == [system |-> "absent", prompt |-> userPrompt, max_tokens |-> "absent"]

\* The endpoint's call of the provider for a request body:
\* const { system, prompt, max_tokens = 8000 } = req.body;
\* messages.create({ max_tokens, system: system || '', messages: [{ content: prompt }] })
ProviderCall(body) ==
  [system |-> IF Falsy(body.system) THEN "empty" ELSE body.system,
   prompt |-> body.prompt,
   max_tokens |-> IF body.max_tokens = "absent" THEN "8000" ELSE body.max_tokens]

(***************************************************************************)
(* What an invocation hands to its caller.                                 *)
(***************************************************************************)
Outcome(kind, value, error) == [kind |-> kind, value |-> value, error |-> error]
NoOutcome == Outcome("none", NoValue, NoError)
Threw(error) == Outcome("threw", NoValue, error)
\* generateArchitecture and refineArchitecture return the architecture itself
ReturnedArchitecture(arch) == Outcome("returned", Returned("none", arch, <<>>, <<>>, {}), NoError)
ReturnedGated(value) == Outcome("returned", value, NoError)

\* generateArchitecture: architecture.metadata = { ...metadata, schema_version, created_at, platform_target }
StampCreated(arch, in) ==
  [arch EXCEPT !.metadata.schema_version = "1.0.0",
               !.metadata.created_at = "now",
               !.metadata.platform_target = PlatformOf(in)]

RefinementNoteOffByOne(feedback) ==
  Note(IF feedback.len = 0 THEN "empty" ELSE "text",
       IF feedback.len >= NoteLimit THEN NoteLimit ELSE feedback.len,
       feedback.len >= NoteLimit)

\* feedback.substring(0, 100) + (feedback.length > 100 ? '...' : '')
RefinementNote(feedback) ==
  Note(IF feedback.len = 0 THEN "empty" ELSE "text",
       IF feedback.len > NoteLimit THEN NoteLimit ELSE feedback.len,
       feedback.len > NoteLimit)

\* refineArchitecture: refined.metadata = { ...metadata, updated_at, refinement_note }
StampRefined(arch, feedback) ==
  [arch EXCEPT !.metadata.updated_at = "now",
               !.metadata.refinement_note = RefinementNote(feedback)]

AfterParseUngated(o, in, parsed) ==
  IF ~parsed.ok THEN Threw(parsed.error)
  ELSE IF o \in {"generateArchitecture", "processWithConfidenceGating"}
    THEN ReturnedArchitecture(StampCreated(parsed.arch, in))
  ELSE ReturnedArchitecture(StampRefined(parsed.arch, FeedbackOf(o, in)))

\* The code that runs once the awaited completion has resolved with a text.
AfterParse(o, in, parsed) ==
  IF ~parsed.ok THEN Threw(parsed.error)
  ELSE IF o = "generateArchitecture"
    THEN ReturnedArchitecture(StampCreated(parsed.arch, in))
  ELSE IF o = "processWithConfidenceGating"
    THEN ReturnedGated(ConfidenceGate(StampCreated(parsed.arch, in)))
  ELSE ReturnedArchitecture(StampRefined(parsed.arch, FeedbackOf(o, in)))

\* The steps of it that ran.
StagesRun(o, text, parsed) ==
  <<"extract">>
  \o (IF JsonParses(text.toks) THEN <<"validate">> ELSE <<>>)
  \o (IF parsed.ok THEN <<"stamp">> ELSE <<>>)
  \o (IF parsed.ok /\ o = "processWithConfidenceGating" THEN <<"gate">> ELSE <<>>)

(***************************************************************************)
(* The inputs the model draws from.                                        *)
(***************************************************************************)
SeqsUpTo(S, n) == UNION {[1..m -> S] : m \in 0..n}

Scores == {-5, 40, 69, 70, 100, 150}
Confidences == {40, 69, 70, 90}
QuestionKinds == {<<"high", "false">>, <<"high", "text">>, <<"medium", "false">>, <<"low", "text">>}
ShotKinds == {<<"absent", "absent">>, <<"null", "absent">>, <<"obj", "absent">>,
              <<"obj", "null">>, <<"obj", "empty">>, <<"obj", "text">>}

MissingInfos ==
  {[i \in 1..Len(s) |-> Question(i, s[i][1], s[i][2])] : s \in SeqsUpTo(QuestionKinds, MaxMissingInfo)}
SomeMissingInfos ==
  {<<>>, <<Question(1, "low", "text")>>,
   <<Question(1, "medium", "text"), Question(2, "low", "text")>>,
   <<Question(1, "medium", "text"), Question(2, "low", "false")>>}

Interpretations ==
  {[i \in 1..Len(s) |-> Interpretation(i, s[i])] : s \in SeqsUpTo(Confidences, MaxInterpretations)}
SomeInterpretations == <<Interpretation(1, 40), Interpretation(2, 90)>>

ShotLists ==
  {[i \in 1..Len(s) |-> Shot(s[i][1], s[i][2])] : s \in SeqsUpTo(ShotKinds, MaxShots)}

CompleteDoc(score, missing_info, interpretations) ==
  Doc(Meta("obj", score), "obj", "obj", Arr(<<GoodShot>>), interpretations,
      missing_info, Arr(<<>>), Arr(<<1>>))

\* Documents with every required field and valid shots: what the gate sees.
GateDocs ==
  {CompleteDoc(Num(v), Arr(mi), Arr(SomeInterpretations)) :
     v \in {69, 70}, mi \in MissingInfos}
  \cup {CompleteDoc(Num(v), Arr(mi), Arr(is)) :
     v \in Scores, mi \in SomeMissingInfos, is \in Interpretations}

\* Documents with required fields absent or falsy.
RequiredFieldDocs ==
  {Doc(Meta(m, IF m = "obj" THEN Num(40) ELSE NoNum("absent")), p, g, sh,
       Arr(<<>>), Arr(<<Question(1, "high", "false")>>), Arr(<<>>), Arr(<<>>)) :
     m \in {"absent", "null", "obj"}, p \in {"absent", "null", "empty", "obj"},
     g \in {"absent", "null", "obj"},
     sh \in {NoColl("absent"), NoColl("null"), Arr(<<GoodShot>>),
             Arr(<<GoodShot, Shot("obj", "empty")>>)}}

\* Documents whose shots have or lack their prompt.
ShotDocs ==
  {Doc(Meta("obj", Num(90)), "obj", "obj", Arr(sh), Arr(<<>>), Arr(<<>>), Arr(<<>>), Arr(<<>>)) :
     sh \in ShotLists}

ScoreValues == {NoNum("absent"), NoNum("null"), NoNum("text"), Num(0), Num(40), Num(90)}
Collections(item) == {NoColl("absent"), NoColl("null"), Arr(<<>>), Arr(<<item>>)}

\* Documents with optional fields absent, falsy or present.
OptionalFieldDocs ==
  {Doc(Meta("obj", sc), "obj", "obj", Arr(<<GoodShot>>), is, mi, ch, en) :
     sc \in ScoreValues, is \in Collections(Interpretation(1, 40)),
     mi \in Collections(Question(1, "low", "text")),
     ch \in Collections(1), en \in Collections(1)}

\* A document whose metadata already carries the stamps of an earlier
\* generation and refinement, as a refined architecture does.
StampedDoc ==
  [CompleteDoc(Num(90), Arr(<<>>), Arr(<<>>)) EXCEPT
     !.metadata.schema_version = "0.9.0", !.metadata.created_at = "earlier",
     !.metadata.platform_target = "veo", !.metadata.updated_at = "earlier",
     !.metadata.refinement_note = Note("text", 7, FALSE)]

SomeDocs ==
  {StampedDoc,
   CompleteDoc(Num(40), Arr(<<Question(1, "high", "false")>>), Arr(SomeInterpretations)),
   CompleteDoc(NoNum("absent"), NoColl("absent"), NoColl("absent")),
   Doc(Meta("obj", Num(90)), "absent", "obj", Arr(<<GoodShot>>), Arr(<<>>), Arr(<<>>), Arr(<<>>), Arr(<<>>)),
   Doc(Meta("obj", Num(90)), "obj", "obj", Arr(<<GoodShot, Shot("obj", "empty")>>), Arr(<<>>), Arr(<<>>), Arr(<<>>), Arr(<<>>))}

\* The documents an invocation of o may be answered with.
Docs(o) ==
  IF IsRefinement(o) THEN SomeDocs
  ELSE IF o = "processWithConfidenceGating"
    THEN GateDocs \cup RequiredFieldDocs \cup ShotDocs \cup OptionalFieldDocs
  ELSE SomeDocs \cup RequiredFieldDocs \cup ShotDocs \cup OptionalFieldDocs

FencedShapes ==
  {<<"FENCE", "json", "NL", "DOC", "NL", "FENCE">>,
   <<"FENCE", "NL", "DOC", "NL", "FENCE">>,
   <<"FENCE", "lang", "NL", "DOC", "NL", "FENCE">>,
   <<"junk", "NL", "FENCE", "json", "NL", "DOC", "NL", "FENCE">>,
   <<"SP", "DOC", "NL">>}
ProseShapes == {<<>>, <<"junk">>, <<"FENCE", "json", "NL", "junk", "FENCE">>}

\* The completion texts an invocation of o may receive.
Texts(o) ==
  {Text(<<"DOC">>, d) : d \in Docs(o)}
  \cup {Text(t, d) : t \in FencedShapes, d \in SomeDocs}
  \cup {Text(t, NoArch) : t \in ProseShapes}

\* A previously validated architecture, as generateArchitecture returned it.
PriorArchs ==
  {StampCreated(ValidateArchitecture(d).arch, NoInput) : d \in {e \in SomeDocs : ValidateArchitecture(e).ok}}

\* The creative inputs: every variant, a structured input with every subset
\* of its optional fields, with and without references.
ReferenceLists ==
  {NoColl("absent"), Arr(<<>>),
   Arr(<<Reference("text", "url"), Reference("text", "absent")>>)}
StructuredFields ==
  {[NoFields EXCEPT !.concept = co, !.tone = t, !.narrative = n, !.characters = ch,
                    !.shots = sh, !.style = st, !.constraints = cn] :
     co \in {"absent", "text"}, t \in {"absent", "text", "array"}, n \in {"absent", "text"},
     ch \in {NoColl("absent"), Arr(<<Character("text", "text")>>)},
     sh \in {NoColl("absent"), Arr(<<"text", "text">>)},
     st \in {"absent", "text"}, cn \in {"absent", "text"}}
Creatives ==
  {PlainString, Creative("null", NoFields, NoColl("absent"))}
  \cup {Creative("text", [NoFields EXCEPT !.content = "text"], r) : r \in ReferenceLists}
  \cup {Creative("deck", [NoFields EXCEPT !.filename = "text", !.parsedContent = "text"], r) :
          r \in ReferenceLists}
  \cup {Creative("structured", f, r) : f \in StructuredFields, r \in ReferenceLists}

Ops == {"generateArchitecture", "processWithConfidenceGating", "refineArchitecture", "regenerateShots"}

Inputs(o) ==
  IF o = "refineArchitecture"
    THEN {Input("absent", p, UserFeedback(n), ts, <<>>, NoDirection) :
            p \in PriorArchs, n \in {0, 100, 101},
            ts \in {NoColl("absent"), Arr(<<>>), Arr(<<2>>)}}
  ELSE IF o = "regenerateShots"
    THEN {Input("absent", p, NoFeedback, ts, ns, d) :
            p \in PriorArchs, ns \in {<<1>>, <<3, 5>>}, ts \in {NoColl("absent"), Arr(<<9>>)},
            d \in {Direction("empty", 0), Direction("text", 14)}}
  ELSE IF o = "generateArchitecture"
    THEN {Input(pl, NoArch, NoFeedback, NoColl("absent"), <<>>, NoDirection) : pl \in {"absent", "veo"}}
         \cup {Brief(c, "absent", n, b) : c \in Creatives, n \in {"absent", "num"}, b \in {"absent", "text"}}
  ELSE {Input(pl, NoArch, NoFeedback, NoColl("absent"), <<>>, NoDirection) : pl \in {"absent", "veo"}}

\* The answer is handled without regard to the creative input: the completion
\* texts are varied for the plain brief, and the other briefs get two of them.
Answers(o, in) ==
  IF in.creative = PlainString /\ in.shotCount = "absent" /\ in.brandContext = "absent"
    THEN Texts(o)
    ELSE {Text(<<"DOC">>, StampedDoc), Text(<<"junk">>, NoArch)}

\* The statuses the endpoint answers with when the provider call fails.
FailureStatuses == {401, 429, 500}

(***************************************************************************)
(* Invocations side by side: each is a promise with its own arguments,     *)
(* request, answer and result; a prior architecture is passed by           *)
(* reference, so two refinements may be given the same object.             *)
(***************************************************************************)
Invocations == 1..MaxInvocations
Refs == {"a", "b"}

Call(at, o, in, ref, sent, answer, result, abandoned) ==
  [pc |-> at, op |-> o, input |-> in, ref |-> ref, requests |-> sent,
   response |-> answer, outcome |-> result, abandoned |-> abandoned]
NoResponse == [status |-> 0, text |-> NoText]
NoCall == Call("idle", "none", NoInput, "none", <<>>, NoResponse, NoOutcome, FALSE)

\* The objects the callers hold: two architectures generateArchitecture returned.
InitialHeap ==
  [r \in Refs |->
     IF r = "a" THEN StampCreated(ValidateArchitecture(StampedDoc).arch, NoInput)
     ELSE StampCreated(ValidateArchitecture(CompleteDoc(Num(40), Arr(<<>>), Arr(<<>>))).arch, NoInput)]

(***************************************************************************)
(* The invocation as a state machine.                                      *)
(***************************************************************************)
Init ==
  /\ calls = [i \in Invocations |-> NoCall]
  /\ heap = InitialHeap
  /\ env \in {"browser", "node"}
  /\ pc = "idle"
  /\ op = "none"
  /\ input = NoInput
  /\ requests = <<>>
  /\ response = [status |-> 0, text |-> NoText]
  /\ validation = NoResult
  /\ stages = <<>>
  /\ outcome = NoOutcome

\* A caller invokes o in a browser: the request is built and sent, and the
\* invocation awaits the answer.
InvokeInBrowser(o, in) ==
  /\ pc = "idle"
  /\ env = "browser"
  /\ op' = o
  /\ input' = in
  /\ IF BuildFails(o, in)
       THEN /\ outcome' = Threw(InputTypeError)
            /\ pc' = "done"
            /\ UNCHANGED requests
       ELSE /\ requests' = Append(requests, FetchBody(UserPromptOf(o, in)))
            /\ pc' = "pending"
            /\ UNCHANGED outcome
  /\ UNCHANGED <<env, response, validation, stages>>

\* Outside a browser callClaudeAPI throws before sending anything.
InvokeInNode(o, in) ==
  /\ pc = "idle"
  /\ env = "node"
  /\ op' = o
  /\ input' = in
  /\ outcome' = Threw(IF BuildFails(o, in) THEN InputTypeError ELSE NoSdk)
  /\ pc' = "done"
  /\ UNCHANGED <<env, requests, response, validation, stages>>

CompletionFailsAndRetries(status) ==
  /\ pc = "pending"
  /\ Len(requests) < 2
  /\ response' = [status |-> status, text |-> NoText]
  /\ requests' = Append(requests, requests[1])
  /\ UNCHANGED <<env, pc, op, input, validation, stages, outcome>>

\* The endpoint answers with a failure status: !response.ok, callClaudeAPI throws.
CompletionFails(status) ==
  /\ pc = "pending"
  /\ response' = [status |-> status, text |-> NoText]
  /\ outcome' = Threw(ApiCallFailed(status))
  /\ pc' = "done"
  /\ UNCHANGED <<env, op, input, requests, validation, stages>>

CompletionResolvesInPlace(text) ==
  /\ pc = "pending"
  /\ response' = [status |-> 200, text |-> text]
  /\ validation' = IF JsonParses(text.toks) THEN ValidateArchitecture(text.doc) ELSE NoResult
  /\ LET parsed == ParseResponse(text)
     IN /\ stages' = StagesRun(op, text, parsed)
        /\ outcome' = AfterParse(op, input, parsed)
        /\ input' = IF IsRefinement(op) /\ parsed.ok
                      THEN [input EXCEPT !.prior = StampRefined(parsed.arch, FeedbackOf(op, input))]
                      ELSE input
  /\ pc' = "done"
  /\ UNCHANGED <<env, op, requests>>

\* The endpoint answers 200 with a text: the rest of the invocation runs.
CompletionResolves(text) ==
  /\ pc = "pending"
  /\ response' = [status |-> 200, text |-> text]
  /\ validation' = IF JsonParses(text.toks) THEN ValidateArchitecture(text.doc) ELSE NoResult
  /\ LET parsed == ParseResponse(text)
     IN /\ stages' = StagesRun(op, text, parsed)
        /\ outcome' = AfterParse(op, input, parsed)
  /\ pc' = "done"
  /\ UNCHANGED <<env, op, input, requests>>

Next ==
  \/ pc = "idle" /\ UNCHANGED <<calls, heap>>
       /\ \E o \in Ops : \E in \in Inputs(o) : InvokeInBrowser(o, in)
  \/ pc = "idle" /\ UNCHANGED <<calls, heap>>
       /\ \E o \in Ops : \E in \in Inputs(o) : InvokeInNode(o, in)
  \/ pc = "pending" /\ UNCHANGED <<calls, heap>>
       /\ \E status \in FailureStatuses : CompletionFails(status)
  \/ pc = "pending" /\ UNCHANGED <<calls, heap>>
       /\ \E text \in Answers(op, input) : CompletionResolves(text)

Spec == Init /\ [][Next]_vars

(***************************************************************************)
(* Several invocations interleaved at their one suspension point, the      *)
(* await of the completion call.                                           *)
(***************************************************************************)
\* The arguments of the interleaved invocations; a refinement's prior
\* architecture is the object its caller refers to.
ConcurrentInputs(o) ==
  IF o = "refineArchitecture"
    THEN {Input("absent", NoArch, UserFeedback(101), NoColl("absent"), <<>>, NoDirection)}
  ELSE IF o = "regenerateShots"
    THEN {Input("absent", NoArch, NoFeedback, NoColl("absent"), <<1>>, Direction("text", 14))}
  ELSE IF o = "generateArchitecture"
    THEN {Input("veo", NoArch, NoFeedback, NoColl("absent"), <<>>, NoDirection),
          Brief(Creative("null", NoFields, NoColl("absent")), "absent", "absent", "absent")}
  ELSE {Input("absent", NoArch, NoFeedback, NoColl("absent"), <<>>, NoDirection)}
RefsFor(o) == IF IsRefinement(o) THEN Refs ELSE {"none"}
ConcurrentStatuses == {429}
ConcurrentTexts == {Text(<<"DOC">>, StampedDoc), Text(<<"junk">>, NoArch)}

\* The arguments as the invocation receives them.
Given(o, in, r) == IF IsRefinement(o) THEN [in EXCEPT !.prior = heap[r]] ELSE in

\* Invocation i starts and runs to its await: it builds its prompt and sends
\* its request, or throws before that.
Invoke(i, o, in, r) ==
  /\ calls[i].pc = "idle"
  /\ calls' = [calls EXCEPT ![i] =
       IF BuildFails(o, Given(o, in, r))
         THEN Call("done", o, Given(o, in, r), r, <<>>, NoResponse, Threw(InputTypeError), FALSE)
       ELSE IF env = "node"
         THEN Call("done", o, Given(o, in, r), r, <<>>, NoResponse, Threw(NoSdk), FALSE)
       ELSE Call("pending", o, Given(o, in, r), r,
                 <<FetchBody(UserPromptOf(o, Given(o, in, r)))>>, NoResponse, NoOutcome, FALSE)]
  /\ UNCHANGED <<env, single, heap>>

RejectsAll(i, status) ==
  /\ calls[i].pc = "pending"
  /\ calls' = [j \in Invocations |->
       IF calls[j].pc = "pending"
         THEN [calls[j] EXCEPT !.pc = "done", !.outcome = Threw(ApiCallFailed(status))]
         ELSE calls[j]]
  /\ UNCHANGED <<env, single, heap>>

\* The fetch of invocation i answers with a failure status: it throws.
Rejects(i, status) ==
  /\ calls[i].pc = "pending"
  /\ calls' = [calls EXCEPT ![i].pc = "done",
                            ![i].response = [status |-> status, text |-> NoText],
                            ![i].outcome = Threw(ApiCallFailed(status))]
  /\ UNCHANGED <<env, single, heap>>

\* The fetch of invocation i answers 200 with a text: the rest of it runs,
\* on the object JSON.parse built.
Resolves(i, text) ==
  /\ calls[i].pc = "pending"
  /\ calls' = [calls EXCEPT ![i].pc = "done",
                            ![i].response = [status |-> 200, text |-> text],
                            ![i].outcome = AfterParse(calls[i].op, calls[i].input, ParseResponse(text))]
  /\ UNCHANGED <<env, single, heap>>

\* The caller of invocation i stops waiting for it. Nothing cancels the
\* fetch: the promise settles later and nobody reads it.
Abandon(i) ==
  /\ calls[i].pc = "pending"
  /\ ~calls[i].abandoned
  /\ calls' = [calls EXCEPT ![i].abandoned = TRUE]
  /\ UNCHANGED <<env, single, heap>>

ConcurrentNext ==
  \/ \E i \in Invocations : \E o \in Ops : \E in \in ConcurrentInputs(o) : \E r \in RefsFor(o) :
       Invoke(i, o, in, r)
  \/ \E i \in Invocations : \E status \in ConcurrentStatuses : Rejects(i, status)
  \/ \E i \in Invocations : \E text \in ConcurrentTexts : Resolves(i, text)
  \/ \E i \in Invocations : Abandon(i)

Concurrent == Init /\ [][ConcurrentNext]_vars

(***************************************************************************)
(* Properties.                                                             *)
(***************************************************************************)
\* The invocation of processWithConfidenceGating has come to its gate: the
\* completion resolved and the text was extracted and validated.
AtGate ==
  /\ pc = "done"
  /\ op = "processWithConfidenceGating"
  /\ validation.ok

\* The validated architecture generateArchitecture returned to the gate.
Generated == StampCreated(validation.arch, input)

GateScore == validation.arch.metadata.confidence_score.v
GateMissingInfo == validation.arch.missing_info.items
GateInterpretations == validation.arch.interpretations.items

\* The positions of the missing_info entries that qualify as questions.
Qualifying ==
  {i \in 1..Len(GateMissingInfo) :
     \/ GateMissingInfo[i].criticality = "high"
     \/ GateMissingInfo[i].default_used \in {"absent", "null", "false", "zero", "empty"}}

\* The positions of the interpretations of confidence below 0.70.
LowConfidence ==
  {i \in 1..Len(GateInterpretations) : GateInterpretations[i].confidence < 70}

\* The rank of position i in a set of positions: 1 for the least.
RankIn(S, i) == Cardinality({j \in S : j < i}) + 1

\* C1: a validated architecture with confidence_score >= 0.70 is returned
\* with status complete, carrying the architecture, whatever its
\* missing_info and interpretations hold.
C1_CompleteAtThreshold ==
  (AtGate /\ GateScore >= 70) =>
    /\ outcome.kind = "returned"
    /\ outcome.value.status = "complete"
    /\ outcome.value.architecture = Generated

C1_Witness ==
  /\ AtGate
  /\ GateScore = 70
  /\ outcome.value.status = "complete"
  /\ \E i \in 1..Len(GateMissingInfo) :
       GateMissingInfo[i].criticality = "high" /\ GateMissingInfo[i].default_used = "false"
  /\ LowConfidence # {}

GateStatuses == {"complete", "needs_clarification", "complete_with_caveats"}

\* C4: the gate returns, for every validated architecture, exactly one of
\* the three statuses: it does not throw, it returns a status, and each
\* status is returned in its own case and in no other.
C4_ExactlyOneStatus ==
  AtGate =>
    /\ outcome.kind = "returned"
    /\ outcome.value.status \in GateStatuses
    /\ (outcome.value.status = "complete") <=> (GateScore >= 70)
    /\ (outcome.value.status = "needs_clarification") <=>
         (GateScore < 70 /\ Qualifying # {})
    /\ (outcome.value.status = "complete_with_caveats") <=>
         (GateScore < 70 /\ Qualifying = {})
    /\ outcome.value.keys \in
         {{"status", "architecture"}, {"status", "architecture", "questions"},
          {"status", "architecture", "caveats"}}

C4_Witness ==
  /\ AtGate
  /\ outcome.value.status = "complete_with_caveats"
  /\ GateScore = -5
  /\ GateMissingInfo = <<>>
  /\ GateInterpretations = <<>>

\* The completion resolved with a text that is valid JSON.
ParsedJson ==
  /\ pc = "done"
  /\ response.status = 200
  /\ JsonParses(response.text.toks)

\* The mapping JSON.parse returned.
Parsed == response.text.doc

\* C5: when the completion text is valid JSON that violates the schema, the
\* caller receives validateArchitecture's error, with its message naming the
\* violations, and not the error raised for a text that is not valid JSON.
C5_SchemaErrorSurfaces ==
  (ParsedJson /\ ~validation.ok) =>
    /\ outcome.kind = "threw"
    /\ outcome.error = validation.error
    /\ outcome.error # ParseFailed

AbsentRequired == {f \in {"metadata", "project", "global_style", "shots"} : FieldKind(Parsed, f) = "absent"}

FalsyRequired ==
  {f \in {"metadata", "project", "global_style", "shots"} :
     FieldKind(Parsed, f) \in {"absent", "null", "false", "zero", "empty"}}

Named(error) == {error.fields[i] : i \in 1..Len(error.fields)}

\* C6 as stated: with M the required fields not in the mapping,
\* validateArchitecture fails when M is not empty and its error names the
\* fields of M and no other.
C6_NamesAbsentFields ==
  (ParsedJson /\ AbsentRequired # {}) =>
    /\ ~validation.ok
    /\ validation.error.kind = "missing_fields"
    /\ Named(validation.error) = AbsentRequired

\* C6 amended: with M the required fields that are not in the mapping or
\* hold a falsy value (null, false, 0, the empty string), validateArchitecture
\* fails when M is not empty and its error names every field of M and no
\* other.
C6_NamesFalsyFields ==
  (ParsedJson /\ FalsyRequired # {}) =>
    /\ ~validation.ok
    /\ validation.error.kind = "missing_fields"
    /\ Named(validation.error) = FalsyRequired
    /\ Len(validation.error.fields) = Cardinality(FalsyRequired)

C6_Witness ==
  /\ ParsedJson
  /\ FalsyRequired = {"metadata", "project", "shots"}
  /\ Parsed.project = "empty"
  /\ Parsed.shots.k = "null"
  /\ validation.error = MissingFields(<<"metadata", "project", "shots">>)

ParsedShots == Parsed.shots.items

\* The positions of the shots with prompt absent, or full_prompt absent or empty.
ShotsWithoutPrompt ==
  {i \in 1..Len(ParsedShots) :
     \/ ParsedShots[i].prompt = "absent"
     \/ ParsedShots[i].prompt = "obj" /\ ParsedShots[i].full_prompt \in {"absent", "empty"}}

\* The positions of the shots with prompt or full_prompt absent or falsy.
ShotsWithFalsyPrompt ==
  {i \in 1..Len(ParsedShots) :
     \/ ParsedShots[i].prompt \in {"absent", "null", "false", "zero", "empty"}
     \/ ParsedShots[i].full_prompt \in {"absent", "null", "false", "zero", "empty"}}

\* C7 as stated: with all required fields present, validateArchitecture
\* fails if and only if some shot has prompt absent or full_prompt absent or
\* empty, naming the position of such a shot.
C7_RejectsAbsentOrEmptyPrompt ==
  (ParsedJson /\ FalsyRequired = {}) =>
    /\ ~validation.ok <=> ShotsWithoutPrompt # {}
    /\ ~validation.ok =>
         /\ validation.error.kind = "shot_missing_full_prompt"
         /\ validation.error.n \in ShotsWithoutPrompt

\* C7 amended: with all required fields present and truthy,
\* validateArchitecture fails if and only if some shot has prompt absent or
\* falsy (null) or full_prompt absent or falsy (empty, null, 0, false); the
\* error names the 1-based position of such a shot; every architecture it
\* returns has a non-empty full_prompt in every shot.
C7_RejectsFalsyPrompt ==
  (ParsedJson /\ FalsyRequired = {}) =>
    /\ ~validation.ok <=> ShotsWithFalsyPrompt # {}
    /\ ~validation.ok =>
         /\ validation.error.kind = "shot_missing_full_prompt"
         /\ validation.error.n \in ShotsWithFalsyPrompt
    /\ validation.ok =>
         \A i \in 1..Len(validation.arch.shots.items) :
           /\ validation.arch.shots.items[i].prompt = "obj"
           /\ validation.arch.shots.items[i].full_prompt = "text"

C7_Witness ==
  /\ ParsedJson
  /\ FalsyRequired = {}
  /\ Len(ParsedShots) = 3
  /\ ParsedShots[1] = GoodShot
  /\ ParsedShots[2] = Shot("obj", "empty")
  /\ ParsedShots[3] = GoodShot
  /\ validation.error = ShotMissingPrompt(2)

\* The completion call failed, the text did not parse, or validation failed.
HardFailure ==
  \/ response.status \in FailureStatuses
  \/ response.status = 200 /\ ~JsonParses(response.text.toks)
  \/ response.status = 200 /\ ~validation.ok

\* C8: a status is returned only once the completion has resolved and
\* extraction and validation have both succeeded; an invocation whose
\* completion call failed, whose text did not parse or whose validation
\* failed ends in an error, with no status and no architecture.
C8_NoStatusOnHardFailure ==
  /\ pc # "done" => outcome = NoOutcome
  /\ outcome.value.status \in GateStatuses =>
       /\ op = "processWithConfidenceGating"
       /\ response.status = 200
       /\ JsonParses(response.text.toks)
       /\ validation.ok
       /\ stages = <<"extract", "validate", "stamp", "gate">>
  /\ (pc = "done" /\ HardFailure) =>
       /\ outcome.kind = "threw"
       /\ outcome.error # NoError
       /\ outcome.value = NoValue

C8_Witness ==
  /\ pc = "done"
  /\ op = "processWithConfidenceGating"
  /\ response.status = 200
  /\ JsonParses(response.text.toks)
  /\ ~validation.ok
  /\ Parsed.metadata.confidence_score.v = 40
  /\ outcome.kind = "threw"

\* C9: an invocation sends at most one completion request; when the request
\* fails the invocation fails at once with that failure, having sent no
\* second request and run neither extraction, validation nor gating.
C9_NoRetry ==
  /\ Len(requests) <= 1
  /\ response.status \in FailureStatuses =>
       /\ pc = "done"
       /\ Len(requests) = 1
       /\ outcome = Threw(ApiCallFailed(response.status))
       /\ stages = <<>>
       /\ validation = NoResult

C9_Witness ==
  /\ op = "regenerateShots"
  /\ response.status = 429
  /\ pc = "done"
  /\ Len(requests) = 1
  /\ outcome.kind = "threw"

OptionalCollections == {"interpretations", "missing_info", "characters", "environments"}

Collection(arch, f) ==
  CASE f = "interpretations" -> arch.interpretations
    [] f = "missing_info" -> arch.missing_info
    [] f = "characters" -> arch.characters
    [] f = "environments" -> arch.environments

\* The input has all required fields and valid shots.
ValidInput == ParsedJson /\ FalsyRequired = {} /\ ShotsWithFalsyPrompt = {}

ScoreDefaulted ==
  validation.arch.metadata.confidence_score =
    IF Parsed.metadata.confidence_score.k = "num"
      THEN Parsed.metadata.confidence_score
      ELSE [k |-> "num", v |-> 80]

\* C10 as stated: on a valid input validateArchitecture succeeds, sets
\* confidence_score to 0.8 exactly when it is absent or not a number, and
\* sets each optional collection to an empty sequence exactly when it is
\* absent, leaving it as it is otherwise.
C10_DefaultsWhenAbsent ==
  ValidInput =>
    /\ validation.ok
    /\ ScoreDefaulted
    /\ \A f \in OptionalCollections :
         Collection(validation.arch, f) =
           IF Collection(Parsed, f).k = "absent"
             THEN [k |-> "array", items |-> <<>>]
             ELSE Collection(Parsed, f)

\* C10 amended: on a valid input validateArchitecture succeeds, sets
\* confidence_score to 0.8 exactly when it is absent or not a number, and
\* sets each optional collection to an empty sequence exactly when it is
\* absent or falsy (null, false, 0, the empty string), leaving it as it is
\* otherwise.
C10_DefaultsWhenFalsy ==
  ValidInput =>
    /\ validation.ok
    /\ ScoreDefaulted
    /\ \A f \in OptionalCollections :
         Collection(validation.arch, f) =
           IF Collection(Parsed, f).k \in {"absent", "null", "false", "zero", "empty"}
             THEN [k |-> "array", items |-> <<>>]
             ELSE Collection(Parsed, f)

C10_Witness ==
  /\ ValidInput
  /\ Parsed.metadata.confidence_score.k = "null"
  /\ Parsed.interpretations.k = "absent"
  /\ Parsed.missing_info.k = "null"
  /\ Parsed.characters = [k |-> "array", items |-> <<1>>]
  /\ validation.arch.metadata.confidence_score = [k |-> "num", v |-> 80]
  /\ validation.arch.missing_info = [k |-> "array", items |-> <<>>]
  /\ validation.arch.characters = Parsed.characters


\* The parsed mapping is already complete: the required fields are there,
\* every shot has a non-empty full_prompt, confidence_score is a number and
\* the four optional collections are there.
AlreadyComplete ==
  /\ ValidInput
  /\ Parsed.metadata.confidence_score.k = "num"
  /\ \A f \in OptionalCollections : Collection(Parsed, f).k = "array"

\* C11: validateArchitecture returns an already complete architecture with
\* no field removed, added or altered, and validating what a successful
\* validation returned changes nothing.
C11_CompleteUnchanged ==
  /\ AlreadyComplete => (validation.ok /\ validation.arch = Parsed)
  /\ (ParsedJson /\ validation.ok) =>
       ValidateArchitecture(validation.arch) = validation

C11_Witness ==
  /\ AlreadyComplete
  /\ Parsed.metadata.confidence_score.v = 0
  /\ Parsed.missing_info.items # <<>>
  /\ Parsed.characters.items = <<>>
  /\ validation.arch = Parsed


NeedsClarification == AtGate /\ outcome.value.status = "needs_clarification"

\* The question returned for the qualifying entry at position i.
QuestionFor(i) == outcome.value.questions[RankIn(Qualifying, i)]

Refined ==
  /\ pc = "done"
  /\ IsRefinement(op)
  /\ outcome.kind = "returned"

RefinedArch == outcome.value.architecture

\* The feedback text refineArchitecture was given.
GivenFeedback == requests[1].prompt.feedback

\* C13: a successful refinement returns the validated new architecture with
\* updated_at set and with refinement_note the whole feedback when it has at
\* most 100 characters, and its first 100 characters followed by an ellipsis
\* when it has more; the other metadata fields are those of the new
\* architecture.
C13_RefinementStamped ==
  Refined =>
    /\ validation.ok
    /\ RefinedArch.metadata.updated_at = "now"
    /\ RefinedArch.metadata.refinement_note.len =
         (IF GivenFeedback.len <= 100 THEN GivenFeedback.len ELSE 100)
    /\ RefinedArch.metadata.refinement_note.ellipsis <=> (GivenFeedback.len > 100)
    /\ RefinedArch.metadata.k = validation.arch.metadata.k
    /\ RefinedArch.metadata.confidence_score = validation.arch.metadata.confidence_score
    /\ RefinedArch.metadata.schema_version = validation.arch.metadata.schema_version
    /\ RefinedArch.metadata.created_at = validation.arch.metadata.created_at
    /\ RefinedArch.metadata.platform_target = validation.arch.metadata.platform_target
    /\ [RefinedArch EXCEPT !.metadata = validation.arch.metadata] = validation.arch

C13_Witness ==
  /\ Refined
  /\ op = "refineArchitecture"
  /\ GivenFeedback.len = 101
  /\ RefinedArch.metadata.refinement_note = [k |-> "text", len |-> 100, ellipsis |-> TRUE]
  /\ RefinedArch.metadata.created_at = "earlier"
  /\ RefinedArch.metadata.schema_version = "0.9.0"


\* regenerateShots has been invoked and refineArchitecture has sent its request.
Regenerating ==
  /\ op = "regenerateShots"
  /\ pc \in {"pending", "done"}
  /\ env = "browser"

\* C14: regenerateShots delegates once to refineArchitecture, with the same
\* prior architecture, with targetShots equal to shotNumbers whatever
\* targetShots the options hold, and with a feedback that names the shot
\* numbers and holds the direction text when a direction is given, and the
\* generic fresh-interpretation instruction when none is.
C14_RegenerateDelegates ==
  Regenerating =>
    /\ Len(requests) = 1
    /\ requests[1].prompt.kind = "refinement"
    /\ requests[1].prompt.prior = input.prior
    /\ requests[1].prompt.scope = [k |-> "array", items |-> input.shotNumbers]
    /\ requests[1].prompt.feedback.shots = input.shotNumbers
    /\ input.direction.k = "text" =>
         /\ requests[1].prompt.feedback.k = "direction"
         /\ requests[1].prompt.feedback.direction = input.direction
    /\ input.direction.k # "text" =>
         requests[1].prompt.feedback.k = "fresh"
    /\ Refined => RefinedArch.metadata.refinement_note.len =
         (IF requests[1].prompt.feedback.len <= 100 THEN requests[1].prompt.feedback.len ELSE 100)

C14_Witness ==
  /\ Regenerating
  /\ input.shotNumbers = <<3, 5>>
  /\ input.direction = [k |-> "text", len |-> 14]
  /\ input.targetShots = [k |-> "array", items |-> <<9>>]
  /\ requests[1].prompt.scope.items = <<3, 5>>
  /\ requests[1].prompt.feedback.k = "direction"
  /\ requests[1].prompt.feedback.len = 57


\* C15: every completion request sent for a generation or a refinement
\* carries the reasoning-engine system instructions with the user text, and
\* the provider is not called with empty or absent system instructions.
C15_SystemInstructionsSent ==
  \A i \in 1..Len(requests) :
    /\ requests[i].system = "REASONING_ENGINE_SYSTEM_PROMPT"
    /\ requests[i].prompt.kind \in {"generation", "refinement"}
    /\ ProviderCall(requests[i]).system \notin {"empty", "absent"}


\* The pieces of the prompt the one request carries.
PromptPieces == {requests[1].prompt.text[i] : i \in 1..Len(requests[1].prompt.text)}

\* generateArchitecture was invoked with one of the four variants of input.
Briefed ==
  /\ op = "generateArchitecture"
  /\ pc \in {"pending", "done"}
  /\ input.creative.variant \in {"string", "text", "deck", "structured"}

\* The label of each optional field of a structured input.
Labels ==
  [concept |-> "Concept: ", tone |-> "Tone: ", narrative |-> "Narrative: ",
   style |-> "Style notes: ", constraints |-> "Constraints: "]

\* C16: for every creative input of the four variants, with any subset of
\* the optional fields, with or without references, and with shotCount and
\* brandContext set or unset, buildUserPrompt returns a text (in a browser
\* the request is sent, elsewhere the failure is the missing SDK), and the
\* text holds no 'undefined' or 'null': an unset field is left out and a set
\* one is rendered.
C16_PromptTotal ==
  Briefed =>
    /\ outcome.error # InputTypeError
    /\ env = "browser" =>
         /\ Len(requests) = 1
         /\ requests[1].prompt.kind = "generation"
         /\ PromptPieces \cap {"undefined", "null"} = {}
         /\ input.creative.variant = "structured" =>
              /\ \A f \in DOMAIN Labels : Labels[f] \in PromptPieces <=> input.creative[f] # "absent"
              /\ "Characters:" \in PromptPieces <=> input.creative.characters.k # "absent"
              /\ "Shot ideas:" \in PromptPieces <=> input.creative.shots.k # "absent"
         /\ "## Visual References" \in PromptPieces
              <=> (input.creative.references.k = "array" /\ input.creative.references.items # <<>>)
         /\ "- Brand context: " \in PromptPieces <=> input.brandContext # "absent"
         /\ "infer from content" \in PromptPieces <=> input.shotCount = "absent"

C16_Witness ==
  /\ Briefed
  /\ env = "browser"
  /\ input.creative.variant = "structured"
  /\ input.creative.concept = "text"
  /\ input.creative.style = "absent"
  /\ input.creative.characters.k = "absent"
  /\ input.creative.references.k = "absent"
  /\ input.shotCount = "absent"
  /\ input.brandContext = "absent"
  /\ requests[1].prompt.text =
       <<"## Creative Input", "Concept: ", "text", "## Requirements", "- Target platform: ",
         "platform-agnostic", "- Number of shots: ", "infer from content", "## Instructions">>


\* The text is one JSON document between fence markers: before the document
\* an opening fence, bare or directly followed by a language tag, after it a
\* closing fence, and whitespace anywhere around them.
DocAt(t) == CHOOSE i \in 1..Len(t) : t[i] = "DOC"
Fenced(t) ==
  /\ Cardinality({i \in 1..Len(t) : t[i] = "DOC"}) = 1
  /\ \A i \in 1..Len(t) : t[i] \in {"FENCE", "json", "lang", "NL", "SP", "DOC"}
  /\ \E i \in 1..Len(t) : i < DocAt(t) /\ t[i] = "FENCE"
  /\ \E i \in 1..Len(t) : i > DocAt(t) /\ t[i] = "FENCE"
  /\ \A i \in 1..Len(t) : t[i] \in {"json", "lang"} => (1 < i /\ i < DocAt(t) /\ t[i - 1] = "FENCE")

\* C17: for a completion text that is a valid JSON document between fence
\* markers, the opening one bare or with any language tag, parseResponse
\* yields what it yields for the bare document.
C17_FencesTransparent ==
  (pc = "done" /\ response.status = 200 /\ Fenced(response.text.toks)) =>
     /\ JsonParses(response.text.toks)
     /\ ParseResponse(response.text) = ParseResponse(Text(<<"DOC">>, response.text.doc))


\* C18: every architecture returned by validation, generation or refinement
\* has metadata.confidence_score within 0.0 and 1.0 (0 and 100 hundredths),
\* and so has every architecture the gate is applied to.
C18_ScoreInRange ==
  /\ (pc = "done" /\ validation.ok) =>
       /\ validation.arch.metadata.confidence_score.k = "num"
       /\ validation.arch.metadata.confidence_score.v \in 0..100
  /\ (pc = "done" /\ outcome.kind = "returned") =>
       /\ outcome.value.architecture.metadata.confidence_score.k = "num"
       /\ outcome.value.architecture.metadata.confidence_score.v \in 0..100


\* A refinement was requested: its one request has been sent.
Refining ==
  /\ IsRefinement(op)
  /\ pc \in {"pending", "done"}
  /\ env = "browser"

\* targetShots as refineArchitecture receives it; regenerateShots always
\* provides it.
ProvidedShots == IF op = "regenerateShots" THEN Arr(input.shotNumbers) ELSE input.targetShots
RefinementPieces == {requests[1].prompt.text[i] : i \in 1..Len(requests[1].prompt.text)}
ScopedToShots ==
  /\ "Refine shots " \in RefinementPieces
  /\ "SHOTS" \in RefinementPieces
  /\ " based on the feedback while maintaining continuity with other shots." \in RefinementPieces
  /\ "Refine the entire architecture based on the feedback." \notin RefinementPieces
  /\ requests[1].prompt.scope = ProvidedShots
ScopedToAll ==
  /\ "Refine the entire architecture based on the feedback." \in RefinementPieces
  /\ "Refine shots " \notin RefinementPieces
  /\ " based on the feedback while maintaining continuity with other shots." \notin RefinementPieces
  /\ requests[1].prompt.scope.k = "absent"

\* C19: the refinement request is scoped to the listed shots, with the
\* directive to maintain continuity with the other shots, exactly when
\* targetShots is provided, and to the entire architecture otherwise; either
\* way it embeds the serialized prior architecture, the feedback text and
\* the directives to preserve what the feedback leaves alone and to maintain
\* character consistency and continuity.
C19_RefinementScope ==
  Refining =>
    /\ Len(requests) = 1
    /\ ProvidedShots.k = "array" => ScopedToShots
    /\ ProvidedShots.k # "array" => ScopedToAll
    /\ "PRIOR" \in RefinementPieces
    /\ requests[1].prompt.prior = input.prior
    /\ "FEEDBACK" \in RefinementPieces
    /\ requests[1].prompt.feedback = FeedbackOf(op, input)
    /\ "Preserve all elements not addressed by the feedback." \in RefinementPieces
    /\ "Maintain character consistency and continuity." \in RefinementPieces

C19_Witness ==
  /\ Refining
  /\ op = "refineArchitecture"
  /\ input.targetShots = Arr(<<>>)
  /\ ScopedToShots
  /\ requests[1].prompt.feedback = UserFeedback(101)


\* The prior architecture the caller passed and still holds.
Prior == input.prior

\* C20: refineArchitecture and regenerateShots leave the prior architecture
\* as it was passed (it is still what the request serialized), whether the
\* refinement succeeds or fails at the completion, the extraction or the
\* validation; a successful one returns an architecture built from the
\* completion text and the feedback alone, a failed one returns nothing.
C20_PriorUntouched ==
  (IsRefinement(op) /\ pc \in {"pending", "done"}) =>
    /\ Prior \in PriorArchs
    /\ env = "browser" => Prior = requests[1].prompt.prior
    /\ Refined =>
         RefinedArch = StampRefined(ValidateArchitecture(response.text.doc).arch, GivenFeedback)
    /\ (pc = "done" /\ outcome.kind = "threw") => outcome.value = NoValue

C20_Witness ==
  /\ IsRefinement(op)
  /\ pc = "done"
  /\ response.status = 200
  /\ JsonParses(response.text.toks)
  /\ ~validation.ok
  /\ outcome = Threw(ParseFailed)
  /\ Prior = requests[1].prompt.prior
  /\ Prior \in PriorArchs


\* What an invocation returns or throws when it runs alone with the
\* arguments and the answer of c.
RunAlone(c) ==
  IF BuildFails(c.op, c.input) THEN Threw(InputTypeError)
  ELSE IF env = "node" THEN Threw(NoSdk)
  ELSE IF c.response.status # 200 THEN Threw(ApiCallFailed(c.response.status))
  ELSE AfterParse(c.op, c.input, ParseResponse(c.response.text))

\* C21: interleaved invocations do not interfere. Whatever the others do,
\* fail or are abandoned, the objects the callers hold stay as they were,
\* each invocation's prior architecture is still the object it was given,
\* its request is the one built from its own arguments, and what it returns
\* or throws is what it returns or throws alone with its own answer.
C21_NoInterference ==
  /\ heap = InitialHeap
  /\ \A i \in Invocations :
       /\ (calls[i].pc # "idle" /\ IsRefinement(calls[i].op)) =>
            calls[i].input.prior = heap[calls[i].ref]
       /\ calls[i].pc = "pending" =>
            /\ calls[i].requests = <<FetchBody(UserPromptOf(calls[i].op, calls[i].input))>>
            /\ calls[i].response = NoResponse
            /\ calls[i].outcome = NoOutcome
       /\ calls[i].pc = "done" =>
            /\ calls[i].outcome = RunAlone(calls[i])
            /\ calls[i].outcome.kind \in {"returned", "threw"}
            /\ (env = "browser" /\ ~BuildFails(calls[i].op, calls[i].input)) =>
                 /\ calls[i].response.status # 0
                 /\ calls[i].requests = <<FetchBody(UserPromptOf(calls[i].op, calls[i].input))>>

\* Two refinements of the same prior architecture: the first was abandoned
\* and failed, the second returned.
C21_Witness ==
  /\ calls[1].op = "refineArchitecture"
  /\ calls[2].op = "regenerateShots"
  /\ calls[1].ref = "a"
  /\ calls[2].ref = "a"
  /\ calls[1].abandoned
  /\ calls[1].pc = "done"
  /\ calls[1].outcome = Threw(ApiCallFailed(429))
  /\ calls[2].pc = "done"
  /\ calls[2].outcome.kind = "returned"
  /\ calls[2].input.prior = InitialHeap["a"]

====
